---- MODULE Spec2Model ----
(***************************************************************************)
(* Selector dispatch of the Huff article (MAIN macro and DISPATCH jump     *)
(* table) and the get-selectors.sh script (signature collection,           *)
(* normalize_signature, extract_from_file); and sign_securely of the       *)
(* runtime signer (secure_signer.py).                                      *)
(*                                                                         *)
(* A selector is a 32-bit value; it is kept as its four big-endian bytes   *)
(* <<b1, b2, b3, b4>> so that no value leaves the integer range.           *)
(***************************************************************************)
EXTENDS Integers, Sequences, FiniteSets, TLC

VARIABLES
    funcs,      \* the functions of the contract, in the order they were listed
    width,      \* the mask width k (mask = 2^k - 1); -1 before a mask is chosen
    table,      \* the DISPATCH jump table: slot index -> entry
    sel,        \* the selector of the incoming call (top of the stack)
    pc,         \* where MAIN is: "mask", "build", "idle", "main", "chain", "leaf", "error", "handler", "reverted"
    target,     \* the label jumped to: a function's leaf, or a collision handler's slot
    pos,        \* position inside the collision handler being executed
    cfg,        \* mask search configuration: [threshold, maxWidth]
    warning,    \* ThresholdUnsatisfiable raised by the mask search
    \* normalize_signature / extract_from_file on one declaration
    cmode,      \* "file": a declaration line read from a file; "direct": normalize_signature called on its own
    cname,      \* the function name of the declaration
    cinner,     \* the text between the declaration's parentheses
    cparams,    \* the params handed to normalize_signature
    cout,       \* the signature printed; <<>> when nothing is printed
    cpc,        \* "off", "start", "read", "call", "done"
    \* environment and exit of get-selectors.sh
    env,        \* [python3, cast, help, defaultFile]
    errMsg,     \* the message of die; "" when the script has not died
    exitCode,   \* the script's exit status; -1 while it runs
    \* get-selectors.sh
    args,       \* "$@": files (their declaration lines) and literal signatures
    argi,       \* the argument the collection loop is at
    signatures, \* the signatures array
    output,     \* the lines printed: [sig, selector]
    spc,        \* "off", "start", "collect", "check", "print", "done"
    \* sign_securely
    keyring,          \* the OS keyring: what keyring.get_password gives
    keystore_json,    \* the file keystore.json
    transaction_dict, \* the argument of the call
    password,         \* local: the password, "unbound" when not bound
    keystore,         \* local: the loaded keystore, "unbound" when not bound
    account,          \* local: the account holding the private key, "unbound" when not bound
    signed_tx,        \* local: the signed transaction, NoSignedTx when not bound
    exc,              \* the exception raised inside try; "" when none
    decrypted,        \* the private key was decrypted in this call
    wiped,            \* step 5, MEMORY WIPE, was executed in this call
    result,           \* what the call returned: None or the signed transaction; Running before
    printed,          \* what the call printed
    calls,            \* the number of calls made
    step              \* "off", "idle", "get_password", "check", "open", "decrypt", "sign", "wipe", "return", "except", "returned"

dvars == <<funcs, width, table, sel, pc, target, pos, cfg, warning>>

cvars == <<cmode, cname, cinner, cparams, cout, cpc>>

evars == <<env, errMsg, exitCode>>

svars == <<args, argi, signatures, output, spc>>

gvars == <<keyring, keystore_json, transaction_dict, password, keystore, account,
           signed_tx, exc, decrypted, wiped, result, printed, calls, step>>

vars == <<funcs, width, table, sel, pc, target, pos, cfg, warning,
          cmode, cname, cinner, cparams, cout, cpc,
          env, errMsg, exitCode,
          args, argi, signatures, output, spc,
          keyring, keystore_json, transaction_dict, password, keystore, account,
          signed_tx, exc, decrypted, wiped, result, printed, calls, step>>

----------------------------------------------------------------------------
(* Bounds *)

MaxFuncs == 3

MaxWidth == 6

MaxThreshold == 2

MaxLen == 4

MaxArgs == 2

MaxDecls == 1

MaxNonce == 1

MaxCalls == 2

----------------------------------------------------------------------------
(* The parts of the state a specification does not use stay as they are here *)

NoEnv == [python3 |-> TRUE, cast |-> TRUE, help |-> FALSE, defaultFile |-> <<>>]

IdleCanon ==
    /\ cmode = "off"
    /\ cname = ""
    /\ cinner = <<>>
    /\ cparams = <<>>
    /\ cout = <<>>
    /\ cpc = "off"

IdleDispatch ==
    /\ funcs = <<>>
    /\ width = -1
    /\ table = <<>>
    /\ sel = <<>>
    /\ pc = "off"
    /\ target = [kind |-> "none"]
    /\ pos = 0
    /\ cfg = [threshold |-> 0, maxWidth |-> 0]
    /\ warning = FALSE

IdleEnv ==
    /\ env = NoEnv
    /\ errMsg = ""
    /\ exitCode = -1

IdleScript ==
    /\ args = <<>>
    /\ argi = 0
    /\ signatures = <<>>
    /\ output = <<>>
    /\ spc = "off"

NoTransaction == [nonce |-> 0, complete |-> FALSE]

NoSignedTx == [kind |-> "unbound"]

\* What a call has returned: nothing yet, or None.
Running == [kind |-> "running"]

None == [kind |-> "None"]

IdleSigner ==
    /\ keyring = "none"
    /\ keystore_json = "missing"
    /\ transaction_dict = NoTransaction
    /\ password = "unbound"
    /\ keystore = "unbound"
    /\ account = "unbound"
    /\ signed_tx = NoSignedTx
    /\ exc = ""
    /\ decrypted = FALSE
    /\ wiped = FALSE
    /\ result = Running
    /\ printed = ""
    /\ calls = 0
    /\ step = "off"

----------------------------------------------------------------------------
(* Selectors *)

\* The functions the model draws from.  cr1..cr4 and tf3 are the article's;
\* sp1 and sp2 stand for two more of the contract's functions: sp1's
\* selector shares its low 16 bits with cr4's, sp2's only its low two.
FunctionNames == {"cr1", "cr2", "cr3", "cr4", "tf3", "sp1", "sp2"}

\* `cast sig` of each function: the first four bytes of keccak-256.
SelectorOf(fn) ==
    CASE fn = "cr1" -> <<151, 42, 166, 137>>     \* 0x972aa689
      [] fn = "cr2" -> <<80, 30, 39, 81>>        \* 0x501e2751
      [] fn = "cr3" -> <<50, 206, 26, 120>>      \* 0x32ce1a78
      [] fn = "cr4" -> <<147, 244, 29, 138>>     \* 0x93f41d8a
      [] fn = "tf3" -> <<100, 202, 29, 10>>      \* 0x64ca1d0a
      [] fn = "sp1" -> <<1, 2, 29, 138>>         \* 0x01021d8a
      [] fn = "sp2" -> <<3, 4, 29, 142>>         \* 0x03041d8e

Selectors == {SelectorOf(fn) : fn \in FunctionNames}

Pow2(n) == 2 ^ n

\* sel & (2^w - 1), for w <= 16: the low w bits of the selector.
SlotIndex(s, w) == (s[3] * 256 + s[4]) % Pow2(w)

\* Numeric order of two 32-bit selectors.
SelLess(a, b) ==
    \/ a[1] < b[1]
    \/ a[1] = b[1] /\ a[2] < b[2]
    \/ a[1] = b[1] /\ a[2] = b[2] /\ a[3] < b[3]
    \/ a[1] = b[1] /\ a[2] = b[2] /\ a[3] = b[3] /\ a[4] < b[4]

Range(s) == {s[i] : i \in 1..Len(s)}

\* Sequences of distinct elements of S, of length lo..hi.
DistinctSeqs(S, lo, hi) ==
    UNION {{s \in [1..n -> S] : \A i, j \in 1..n : i # j => s[i] # s[j]} : n \in lo..hi}

----------------------------------------------------------------------------
(* The DISPATCH jump table *)

\* The pairs of fs (in their listed order) whose selector falls in slot i.
SlotMatches(fs, w, i) ==
    SelectSeq([j \in 1..Len(fs) |-> [sel |-> SelectorOf(fs[j]), handler |-> fs[j]]],
              LAMBDA p : SlotIndex(p.sel, w) = i)

RECURSIVE SortBySelector(_)
\* Ascending selector value.
SortBySelector(ps) ==
    IF Len(ps) <= 1 THEN ps
    ELSE LET S == Range(ps)
             m == CHOOSE p \in S : \A q \in S : q = p \/ SelLess(p.sel, q.sel)
             rest == SelectSeq(ps, LAMBDA p : p # m)
         IN  <<m>> \o SortBySelector(rest)

\* The order of the tests inside a collision handler.
ChainOrderAsListed(ps) == ps

ChainOrder(ps) == SortBySelector(ps)

\* A table without collision handlers: the first function of a slot takes
\* the slot's word.
SlotEntryNoChain(ps) ==
    IF Len(ps) = 0 THEN [kind |-> "EMPTY"]
    ELSE [kind |-> "DIRECT", sel |-> ps[1].sel, handler |-> ps[1].handler]

\* One word of the jump table: `error` for a slot no selector maps to, the
\* function's own label (xx_j) for a slot with one selector, a collision
\* handler (c_XX) for a slot several selectors share.
SlotEntry(ps) ==
    IF Len(ps) = 0 THEN [kind |-> "EMPTY"]
    ELSE IF Len(ps) = 1 THEN [kind |-> "DIRECT", sel |-> ps[1].sel, handler |-> ps[1].handler]
    ELSE [kind |-> "CHAIN", chain |-> ChainOrder(ps)]

BuildTable(fs, w) ==
    [i \in 0..(Pow2(w) - 1) |-> SlotEntry(SlotMatches(fs, w, i))]

----------------------------------------------------------------------------
(* MAIN *)

NoTarget == [kind |-> "none"]

\* The full-selector test of a validated leaf node.
LeafCheckLow16(incoming, bound) == incoming[3] = bound[3] /\ incoming[4] = bound[4]

LeafCheckNone(incoming, bound) == TRUE

LeafCheck(incoming, bound) == incoming = bound

\* One `dup1 <selector> eq <label> jumpi` line of a collision handler.
ChainTestLow16(incoming, bound) == incoming[3] = bound[3] /\ incoming[4] = bound[4]

ChainTest(incoming, bound) == incoming = bound

InitDispatch ==
    /\ funcs \in DistinctSeqs(FunctionNames, 1, MaxFuncs)
    /\ width = -1
    /\ table = <<>>
    /\ sel = <<>>
    /\ pc = "mask"
    /\ target = NoTarget
    /\ pos = 0
    /\ cfg = [threshold |-> 0, maxWidth |-> 0]
    /\ warning = FALSE
    /\ IdleCanon
    /\ IdleEnv
    /\ IdleScript
    /\ IdleSigner

\* The mask is picked by hand: any width may be tried.
ChooseMask ==
    /\ pc = "mask"
    /\ \E w \in 0..MaxWidth : width' = w
    /\ pc' = "build"
    /\ UNCHANGED <<funcs, table, sel, target, pos, cfg, warning>>
    /\ UNCHANGED <<cvars, evars, svars, gvars>>

\* Lay out the jump table and the collision handlers for the chosen mask.
Build ==
    /\ pc = "build"
    /\ table' = BuildTable(funcs, width)
    /\ pc' = "idle"
    /\ UNCHANGED <<funcs, width, sel, target, pos, cfg, warning>>
    /\ UNCHANGED <<cvars, evars, svars, gvars>>

\* 0x00 calldataload 0xe0 shr: an incoming call puts its selector on the stack.
Call ==
    /\ pc = "idle"
    /\ \E s \in Selectors : sel' = s
    /\ pc' = "main"
    /\ UNCHANGED <<funcs, width, table, target, pos, cfg, warning>>
    /\ UNCHANGED <<cvars, evars, svars, gvars>>

\* Mask, load the destination from DISPATCH, jump.
Main ==
    /\ pc = "main"
    /\ LET e == table[SlotIndex(sel, width)]
       IN  \/ /\ e.kind = "EMPTY"
              /\ pc' = "error"
              /\ target' = NoTarget
              /\ pos' = 0
           \/ /\ e.kind = "DIRECT"
              /\ pc' = "leaf"
              /\ target' = [kind |-> "leaf", sel |-> e.sel, handler |-> e.handler]
              /\ pos' = 0
           \/ /\ e.kind = "CHAIN"
              /\ pc' = "chain"
              /\ target' = [kind |-> "chain", slot |-> SlotIndex(sel, width)]
              /\ pos' = 1
    /\ UNCHANGED <<funcs, width, table, sel, cfg, warning>>
    /\ UNCHANGED <<cvars, evars, svars, gvars>>

\* c_XX: test the pairs in order, jump to the first match's leaf, else error.
CollisionHandler ==
    /\ pc = "chain"
    /\ LET chain == table[target.slot].chain
       IN  IF pos > Len(chain)
           THEN /\ pc' = "error"
                /\ target' = NoTarget
                /\ pos' = 0
           ELSE IF ChainTest(sel, chain[pos].sel)
           THEN /\ pc' = "leaf"
                /\ target' = [kind |-> "leaf", sel |-> chain[pos].sel,
                              handler |-> chain[pos].handler]
                /\ pos' = 0
           ELSE /\ pos' = pos + 1
                /\ UNCHANGED <<pc, target>>
    /\ UNCHANGED <<funcs, width, table, sel, cfg, warning>>
    /\ UNCHANGED <<cvars, evars, svars, gvars>>

\* xx_j: check the full selector, then route to the function's logic.
LeafNode ==
    /\ pc = "leaf"
    /\ IF LeafCheck(sel, target.sel)
       THEN pc' = "handler" /\ UNCHANGED target
       ELSE pc' = "error" /\ target' = NoTarget
    /\ UNCHANGED <<funcs, width, table, sel, pos, cfg, warning>>
    /\ UNCHANGED <<cvars, evars, svars, gvars>>

\* error: 0x00 0x00 revert
Error ==
    /\ pc = "error"
    /\ pc' = "reverted"
    /\ UNCHANGED <<funcs, width, table, sel, target, pos, cfg, warning>>
    /\ UNCHANGED <<cvars, evars, svars, gvars>>

Next ==
    \/ ChooseMask
    \/ Build
    \/ Call
    \/ Main
    \/ CollisionHandler
    \/ LeafNode
    \/ Error

Spec == InitDispatch /\ [][Next]_vars

----------------------------------------------------------------------------
(* Mask selection *)

Max(S) == CHOOSE x \in S : \A y \in S : y <= x

Min(S) == CHOOSE x \in S : \A y \in S : x <= y

RECURSIVE CeilLog2From(_, _)
CeilLog2From(n, k) == IF Pow2(k) >= n THEN k ELSE CeilLog2From(n, k + 1)

\* ceil(log2(n)) for n >= 1: the least k with 2^k >= n.
CeilLog2(n) == CeilLog2From(n, 0)

\* The largest number of selectors of fs that share one slot under width w.
MaxOccupancy(fs, w) ==
    Max({Cardinality({j \in 1..Len(fs) :
                        SlotIndex(SelectorOf(fs[j]), w) = SlotIndex(SelectorOf(fs[i]), w)})
         : i \in 1..Len(fs)})

RECURSIVE SearchMask(_, _, _, _, _)
\* Candidates k, k+1, .., hi in turn: the first that meets the threshold wins;
\* best is the earliest candidate so far with the smallest maximum occupancy.
SearchMask(fs, k, hi, threshold, best) ==
    IF k > hi THEN [width |-> best, ok |-> FALSE]
    ELSE IF MaxOccupancy(fs, k) <= threshold THEN [width |-> k, ok |-> TRUE]
    ELSE SearchMask(fs, k + 1, hi, threshold,
                    IF best = -1 \/ MaxOccupancy(fs, k) < MaxOccupancy(fs, best)
                    THEN k ELSE best)

SelectMaskFirst(fs, c) == [width |-> CeilLog2(Len(fs)), ok |-> TRUE]

SelectMaskLastBest(fs, c) ==
    LET lo == CeilLog2(Len(fs))
        ks == lo..c.maxWidth
        good == {k \in ks : MaxOccupancy(fs, k) <= c.threshold}
        least == Min({MaxOccupancy(fs, k) : k \in ks})
    IN  IF good # {} THEN [width |-> Min(good), ok |-> TRUE]
        ELSE [width |-> Max({k \in ks : MaxOccupancy(fs, k) = least}), ok |-> FALSE]

SelectMask(fs, c) == SearchMask(fs, CeilLog2(Len(fs)), c.maxWidth, c.threshold, -1)

InitSearch ==
    /\ funcs \in DistinctSeqs(FunctionNames, 1, MaxFuncs)
    /\ width = -1
    /\ table = <<>>
    /\ sel = <<>>
    /\ pc = "mask"
    /\ target = NoTarget
    /\ pos = 0
    /\ cfg \in {c \in [threshold : 1..MaxThreshold, maxWidth : 0..MaxWidth] :
                  c.maxWidth >= CeilLog2(Len(funcs))}
    /\ warning = FALSE
    /\ IdleCanon
    /\ IdleEnv
    /\ IdleScript
    /\ IdleSigner

\* The mask search: the chosen width, and ThresholdUnsatisfiable as a warning.
SelectMaskWidth ==
    /\ pc = "mask"
    /\ LET r == SelectMask(funcs, cfg)
       IN  width' = r.width /\ warning' = ~r.ok
    /\ pc' = "build"
    /\ UNCHANGED <<funcs, table, sel, target, pos, cfg>>
    /\ UNCHANGED <<cvars, evars, svars, gvars>>

NextSearch ==
    \/ SelectMaskWidth
    \/ Build

SpecSearch == InitSearch /\ [][NextSearch]_vars

----------------------------------------------------------------------------
(* Text *)

\* Text is a sequence of tokens: a token is a whole word (a maximal run of
\* word characters), or one of " ", ",", "(", ")".  Two words never stand
\* next to each other, for then they would be one word.
Punctuation == {" ", ",", "(", ")"}

IsWord(tok) == tok \notin Punctuation

NoAdjacentWords(s) == \A i \in 1..(Len(s) - 1) : ~(IsWord(s[i]) /\ IsWord(s[i + 1]))

RECURSIVE LStrip(_)
LStrip(s) == IF s # <<>> /\ Head(s) = " " THEN LStrip(Tail(s)) ELSE s

RECURSIVE RStrip(_)
RStrip(s) == IF s # <<>> /\ s[Len(s)] = " " THEN RStrip(SubSeq(s, 1, Len(s) - 1)) ELSE s

\* str.strip(), and sed 's/^ *//; s/ *$//'
Strip(s) == RStrip(LStrip(s))

\* re.sub(r'\b(memory|calldata|storage|indexed)\b', '', p)
Keywords == {"memory", "calldata", "storage", "indexed"}

RemoveKeywords(s) == SelectSeq(s, LAMBDA tok : tok \notin Keywords)

RECURSIVE CollapseSpaces(_)
\* re.sub(r'\s+', ' ', p), and tr -s ' '
CollapseSpaces(s) ==
    IF Len(s) <= 1 THEN s
    ELSE IF s[1] = " " /\ s[2] = " " THEN CollapseSpaces(Tail(s))
    ELSE <<s[1]>> \o CollapseSpaces(Tail(s))

RECURSIVE JoinCommaSpace(_)
\* ', '.join(items): the join of a listing meant for reading.
JoinCommaSpace(items) ==
    IF items = <<>> THEN <<>>
    ELSE IF Len(items) = 1 THEN items[1]
    ELSE items[1] \o <<",", " ">> \o JoinCommaSpace(Tail(items))

RECURSIVE JoinComma(_)
\* ','.join(items)
JoinComma(items) ==
    IF items = <<>> THEN <<>>
    ELSE IF Len(items) = 1 THEN items[1]
    ELSE items[1] \o <<",">> \o JoinComma(Tail(items))

NonEmpty(items) == SelectSeq(items, LAMBDA it : it # <<>>)

----------------------------------------------------------------------------
(* normalize_signature *)

SplitDepthUnclamped(depth, ch) ==
    IF ch = "(" THEN depth + 1 ELSE IF ch = ")" THEN depth - 1 ELSE depth

\* The depth after ch in the top-level comma split: depth = max(depth - 1, 0).
SplitDepth(depth, ch) ==
    IF ch = "(" THEN depth + 1
    ELSE IF ch = ")" THEN (IF depth - 1 > 0 THEN depth - 1 ELSE 0)
    ELSE depth

RECURSIVE SplitTop(_, _, _, _, _)
\* Split params by commas outside of nested parentheses.
SplitTop(params, i, depth, buf, items) ==
    IF i > Len(params)
    THEN IF buf # <<>> THEN Append(items, Strip(buf)) ELSE items
    ELSE IF params[i] = "," /\ depth = 0
    THEN SplitTop(params, i + 1, depth, <<>>, Append(items, Strip(buf)))
    ELSE SplitTop(params, i + 1, SplitDepth(depth, params[i]), Append(buf, params[i]), items)

RECURSIVE LastSpace(_, _, _, _)
\* The index of the last space outside parentheses; 0 for None.
LastSpace(p, i, depth, last) ==
    IF i > Len(p) THEN last
    ELSE IF p[i] = "(" THEN LastSpace(p, i + 1, depth + 1, last)
    ELSE IF p[i] = ")" THEN LastSpace(p, i + 1, IF depth - 1 > 0 THEN depth - 1 ELSE 0, last)
    ELSE IF p[i] = " " /\ depth = 0 THEN LastSpace(p, i + 1, depth, i)
    ELSE LastSpace(p, i + 1, depth, last)

\* Strip names and data-location keywords to produce type-only params.
clean_param(p) ==
    IF p = <<>> THEN <<>>
    ELSE LET q == Strip(CollapseSpaces(RemoveKeywords(p)))
         IN  IF q = <<>> THEN <<>>
             ELSE LET last_space == LastSpace(q, 1, 0, 0)
                  IN  IF last_space # 0 THEN Strip(SubSeq(q, 1, last_space - 1)) ELSE q

CleanAll(items) ==
    NonEmpty([j \in 1..Len(NonEmpty(items)) |-> clean_param(NonEmpty(items)[j])])

RECURSIVE NaiveSplit(_, _, _)
\* IFS=',' read -r -a parts: split at every comma.
NaiveSplit(s, buf, parts) ==
    IF s = <<>> THEN (IF buf # <<>> THEN Append(parts, buf) ELSE parts)
    ELSE IF Head(s) = "," THEN NaiveSplit(Tail(s), <<>>, Append(parts, buf))
    ELSE NaiveSplit(Tail(s), Append(buf, Head(s)), parts)

RECURSIVE FirstToken(_)
\* ${p%% *}: what stands before the first space.
FirstToken(p) ==
    IF p = <<>> \/ Head(p) = " " THEN <<>> ELSE <<Head(p)>> \o FirstToken(Tail(p))

\* The fallback when python3 is not available.
normalize_fallback(name, params) ==
    LET cleaned == Strip(CollapseSpaces(RemoveKeywords(params)))
        parts == NaiveSplit(cleaned, <<>>, <<>>)
        kept == NonEmpty([j \in 1..Len(parts) |-> Strip(parts[j])])
        out == [j \in 1..Len(kept) |-> FirstToken(kept[j])]
    IN  <<name, "(">> \o JoinComma(out) \o <<")">>

\* Convert a name + raw params into a normalized signature.
normalize_signature(name, params, python3) ==
    IF params = <<>> THEN <<name, "(", ")">>
    ELSE IF python3
    THEN <<name, "(">> \o JoinComma(CleanAll(SplitTop(params, 1, 0, <<>>, <<>>))) \o <<")">>
    ELSE normalize_fallback(name, params)

----------------------------------------------------------------------------
(* extract_from_file *)

RECURSIVE BeforeFirstClose(_)
\* ([^)]*) followed by \): what stands before the first ")".
BeforeFirstClose(s) ==
    IF s = <<>> \/ Head(s) = ")" THEN <<>> ELSE <<Head(s)>> \o BeforeFirstClose(Tail(s))

\* ([A-Za-z0-9_]+): the pattern needs a name of at least one character, and
\* the line is printed only if (m[1] != "").
ExtractMatches(name) == name # ""

\* The params awk prints for the line `function name(inner) ...`.
ExtractParams(inner) == BeforeFirstClose(inner \o <<")">>)

----------------------------------------------------------------------------
(* One declaration through extract_from_file and normalize_signature *)

Alphabet == {"uint256", "amount", "memory", " ", ",", "(", ")"}

\* The example of the documentation, a tuple with named fields, and a
\* parameter list with a surplus ")".
SampleParams ==
    { <<"uint256", " ", "amount", ",", " ", "address", " ", "recipient">>,
      <<"(", "uint256", " ", "a", ",", " ", "address", " ", "b", ")", " ", "memory", " ", "p">>,
      <<"uint256", ")", " ", "a", ",", "address", " ", "b">> }

\* Parameter lists that are already normalized: a tuple type followed by a
\* plain type, and a tuple type nested in a tuple type.
NormalizedParams ==
    { <<"(", "uint256", ",", "address", ")", ",", "bool">>,
      <<"(", "uint256", ",", "(", "address", ",", "bool", ")", ")">> }

ParamInputs ==
    SampleParams \cup NormalizedParams \cup
    UNION {{s \in [1..n -> Alphabet] : NoAdjacentWords(s)} : n \in 0..MaxLen}

InitCanon ==
    /\ cmode \in {"file", "direct"}
    /\ cname \in {"foo", ""}
    /\ cinner \in ParamInputs
    /\ cparams = <<>>
    /\ cout = <<>>
    /\ cpc = "start"
    /\ env \in {[NoEnv EXCEPT !.python3 = b] : b \in BOOLEAN}
    /\ errMsg = ""
    /\ exitCode = -1
    /\ IdleDispatch
    /\ IdleScript
    /\ IdleSigner

\* awk reads the declaration line and prints name|params, or nothing.
ExtractFromFile ==
    /\ cpc = "start"
    /\ cmode = "file"
    /\ IF ExtractMatches(cname)
       THEN cparams' = ExtractParams(cinner) /\ cpc' = "read"
       ELSE cparams' = cparams /\ cpc' = "done"
    /\ UNCHANGED <<cmode, cname, cinner, cout>>
    /\ UNCHANGED <<dvars, evars, svars, gvars>>

\* while IFS='|' read -r name params: skip an empty name, else normalize.
CollectEntry ==
    /\ cpc = "read"
    /\ IF cname = ""
       THEN cout' = cout
       ELSE cout' = normalize_signature(cname, cparams, env.python3)
    /\ cpc' = "done"
    /\ UNCHANGED <<cmode, cname, cinner, cparams>>
    /\ UNCHANGED <<dvars, evars, svars, gvars>>

\* normalize_signature called with a name and params of the caller's.
CallNormalize ==
    /\ cpc = "start"
    /\ cmode = "direct"
    /\ cparams' = cinner
    /\ cpc' = "call"
    /\ UNCHANGED <<cmode, cname, cinner, cout>>
    /\ UNCHANGED <<dvars, evars, svars, gvars>>

ReturnNormalize ==
    /\ cpc = "call"
    /\ cout' = normalize_signature(cname, cparams, env.python3)
    /\ cpc' = "done"
    /\ UNCHANGED <<cmode, cname, cinner, cparams>>
    /\ UNCHANGED <<dvars, evars, svars, gvars>>

NextCanon ==
    \/ ExtractFromFile
    \/ CollectEntry
    \/ CallNormalize
    \/ ReturnNormalize

SpecCanon == InitCanon /\ [][NextCanon]_vars

----------------------------------------------------------------------------
(* get-selectors.sh *)

\* The selectors the article lists for its four signatures.
cast_sig(sig) ==
    CASE sig = <<"callReinforcements1", "(", ")">> -> SelectorOf("cr1")
      [] sig = <<"callReinforcements2", "(", ")">> -> SelectorOf("cr2")
      [] sig = <<"callReinforcements3", "(", ")">> -> SelectorOf("cr3")
      [] sig = <<"callReinforcements4", "(", ")">> -> SelectorOf("cr4")

ScriptNames == {"callReinforcements1", "callReinforcements2"}

\* Declaration lines `#define function name(inner) ...` with nothing or a
\* space between the parentheses.
ScriptDecls == {[name |-> n, inner |-> p] : n \in ScriptNames, p \in {<<>>, <<" ">>}}

ScriptFiles ==
    {[kind |-> "file", lines |-> ls] : ls \in UNION {[1..n -> ScriptDecls] : n \in 0..MaxDecls}}

ScriptLiterals == {[kind |-> "sig", text |-> <<n, "(", ")">>] : n \in ScriptNames}

Environments ==
    { NoEnv,
      [NoEnv EXCEPT !.python3 = FALSE],
      [NoEnv EXCEPT !.cast = FALSE],
      [NoEnv EXCEPT !.help = TRUE] }

InitScript ==
    /\ args \in UNION {[1..n -> ScriptFiles \cup ScriptLiterals] : n \in 0..MaxArgs}
    /\ env \in Environments \cup
               (IF args = <<>> THEN {[NoEnv EXCEPT !.defaultFile = <<f>>] : f \in ScriptFiles}
                ELSE {})
    /\ argi = 0
    /\ signatures = <<>>
    /\ output = <<>>
    /\ spc = "start"
    /\ errMsg = ""
    /\ exitCode = -1
    /\ IdleDispatch
    /\ IdleCanon
    /\ IdleSigner

AppendUnique(sigs, s) == IF s \in Range(sigs) THEN sigs ELSE Append(sigs, s)

\* signatures+=(...)
AppendSignature(sigs, s) == Append(sigs, s)

RECURSIVE CollectLines(_, _, _)
\* while IFS='|' read -r name params ... done < <(extract_from_file "$arg")
CollectLines(lines, sigs, python3) ==
    IF lines = <<>> THEN sigs
    ELSE LET l == Head(lines)
         IN  IF ~ExtractMatches(l.name) \/ l.name = ""
             THEN CollectLines(Tail(lines), sigs, python3)
             ELSE CollectLines(Tail(lines),
                               AppendSignature(sigs,
                                   normalize_signature(l.name, ExtractParams(l.inner), python3)),
                               python3)

NeverEmpty(sigs) == FALSE

\* [[ ${#signatures[@]} -eq 0 ]]
NoSignatures(sigs) == Len(sigs) = 0

Die(msg) ==
    /\ errMsg' = msg
    /\ exitCode' = 1
    /\ spc' = "done"

\* -h or --help: print the usage and exit 0.
Usage ==
    /\ spc = "start"
    /\ env.help
    /\ exitCode' = 0
    /\ spc' = "done"
    /\ UNCHANGED <<args, argi, signatures, output, env, errMsg>>
    /\ UNCHANGED <<dvars, cvars, gvars>>

CastMissing ==
    /\ spc = "start"
    /\ ~env.help
    /\ ~env.cast
    /\ Die("'cast' not found in PATH. Install Foundry first.")
    /\ UNCHANGED <<args, argi, signatures, output, env>>
    /\ UNCHANGED <<dvars, cvars, gvars>>

\* If no args, fall back to the default interface file.
Start ==
    /\ spc = "start"
    /\ ~env.help
    /\ env.cast
    /\ IF args = <<>>
       THEN IF env.defaultFile # <<>>
            THEN /\ args' = env.defaultFile
                 /\ argi' = 1
                 /\ spc' = "collect"
                 /\ UNCHANGED <<errMsg, exitCode>>
            ELSE /\ Die("no inputs provided and default file not found")
                 /\ UNCHANGED <<args, argi>>
       ELSE /\ argi' = 1
            /\ spc' = "collect"
            /\ UNCHANGED <<args, errMsg, exitCode>>
    /\ UNCHANGED <<signatures, output, env>>
    /\ UNCHANGED <<dvars, cvars, gvars>>

\* for arg in "$@": a file's declarations, normalized, or the literal itself.
CollectArg ==
    /\ spc = "collect"
    /\ argi <= Len(args)
    /\ signatures' = IF args[argi].kind = "file"
                     THEN CollectLines(args[argi].lines, signatures, env.python3)
                     ELSE AppendSignature(signatures, args[argi].text)
    /\ argi' = argi + 1
    /\ UNCHANGED <<args, output, spc, env, errMsg, exitCode>>
    /\ UNCHANGED <<dvars, cvars, gvars>>

\* After the loop: die when nothing was collected.
CheckSignatures ==
    /\ spc = "collect"
    /\ argi > Len(args)
    /\ IF NoSignatures(signatures)
       THEN /\ Die("no function signatures found")
            /\ UNCHANGED argi
       ELSE /\ spc' = "print"
            /\ argi' = 1
            /\ UNCHANGED <<errMsg, exitCode>>
    /\ UNCHANGED <<args, signatures, output, env>>
    /\ UNCHANGED <<dvars, cvars, gvars>>

\* for sig in "${signatures[@]}": print sig and `cast sig`.
PrintSelector ==
    /\ spc = "print"
    /\ argi <= Len(signatures)
    /\ output' = Append(output, [sig |-> signatures[argi],
                                 selector |-> cast_sig(signatures[argi])])
    /\ argi' = argi + 1
    /\ UNCHANGED <<args, signatures, spc, env, errMsg, exitCode>>
    /\ UNCHANGED <<dvars, cvars, gvars>>

Exit ==
    /\ spc = "print"
    /\ argi > Len(signatures)
    /\ exitCode' = 0
    /\ spc' = "done"
    /\ UNCHANGED <<args, argi, signatures, output, env, errMsg>>
    /\ UNCHANGED <<dvars, cvars, gvars>>

NextScript ==
    \/ Usage
    \/ CastMissing
    \/ Start
    \/ CollectArg
    \/ CheckSignatures
    \/ PrintSelector
    \/ Exit

SpecScript == InitScript /\ [][NextScript]_vars

----------------------------------------------------------------------------
(* sign_securely *)

\* keyring.get_password: the backend fails, no password is stored (None),
\* or a password is stored, the keystore's or another.
KeyringStates == {"unavailable", "none", "correct", "wrong"}

\* keystore.json: absent, not JSON, or the encrypted keystore.
KeystoreFiles == {"missing", "corrupt", "encrypted"}

\* The transactions handed to sign_securely; sign_transaction raises on a
\* dict that lacks a required field.
Transactions == [nonce : 0..MaxNonce, complete : BOOLEAN]

InitSigner ==
    /\ keyring \in KeyringStates
    /\ keystore_json \in KeystoreFiles
    /\ transaction_dict = NoTransaction
    /\ password = "unbound"
    /\ keystore = "unbound"
    /\ account = "unbound"
    /\ signed_tx = NoSignedTx
    /\ exc = ""
    /\ decrypted = FALSE
    /\ wiped = FALSE
    /\ result = Running
    /\ printed = ""
    /\ calls = 0
    /\ step = "idle"
    /\ IdleDispatch
    /\ IdleCanon
    /\ IdleEnv
    /\ IdleScript

\* def sign_securely(transaction_dict): a call with fresh locals.
CallSign ==
    /\ step \in {"idle", "returned"}
    /\ calls < MaxCalls
    /\ \E tx \in Transactions : transaction_dict' = tx
    /\ calls' = calls + 1
    /\ password' = "unbound"
    /\ keystore' = "unbound"
    /\ account' = "unbound"
    /\ signed_tx' = NoSignedTx
    /\ exc' = ""
    /\ decrypted' = FALSE
    /\ wiped' = FALSE
    /\ result' = Running
    /\ printed' = ""
    /\ step' = "get_password"
    /\ UNCHANGED <<keyring, keystore_json>>
    /\ UNCHANGED <<dvars, cvars, evars, svars>>

\* 1. password = keyring.get_password(...)
GetPassword ==
    /\ step = "get_password"
    /\ IF keyring = "unavailable"
       THEN /\ exc' = "keyring backend"
            /\ step' = "except"
            /\ UNCHANGED password
       ELSE /\ password' = keyring
            /\ step' = "check"
            /\ UNCHANGED exc
    /\ UNCHANGED <<keyring, keystore_json, transaction_dict, keystore, account,
                   signed_tx, decrypted, wiped, result, printed, calls>>
    /\ UNCHANGED <<dvars, cvars, evars, svars>>

\* if not password: raise ValueError("Password not found in Keyring")
CheckPassword ==
    /\ step = "check"
    /\ IF password = "none"
       THEN exc' = "Password not found in Keyring" /\ step' = "except"
       ELSE exc' = exc /\ step' = "open"
    /\ UNCHANGED <<keyring, keystore_json, transaction_dict, password, keystore, account,
                   signed_tx, decrypted, wiped, result, printed, calls>>
    /\ UNCHANGED <<dvars, cvars, evars, svars>>

\* 2. with open("keystore.json", "r") as f: keystore = json.load(f)
LoadKeystore ==
    /\ step = "open"
    /\ IF keystore_json = "missing"
       THEN exc' = "No such file or directory" /\ step' = "except" /\ UNCHANGED keystore
       ELSE IF keystore_json = "corrupt"
       THEN exc' = "JSONDecodeError" /\ step' = "except" /\ UNCHANGED keystore
       ELSE keystore' = keystore_json /\ step' = "decrypt" /\ UNCHANGED exc
    /\ UNCHANGED <<keyring, keystore_json, transaction_dict, password, account,
                   signed_tx, decrypted, wiped, result, printed, calls>>
    /\ UNCHANGED <<dvars, cvars, evars, svars>>

\* 3. account = Account.from_key(Account.decrypt(keystore, password));
\* decrypt raises on a password that is not the keystore's.
Decrypt ==
    /\ step = "decrypt"
    /\ IF password = "correct"
       THEN /\ account' = "private key"
            /\ decrypted' = TRUE
            /\ step' = "sign"
            /\ UNCHANGED exc
       ELSE /\ exc' = "MAC mismatch"
            /\ step' = "except"
            /\ UNCHANGED <<account, decrypted>>
    /\ UNCHANGED <<keyring, keystore_json, transaction_dict, password, keystore,
                   signed_tx, wiped, result, printed, calls>>
    /\ UNCHANGED <<dvars, cvars, evars, svars>>

\* 4. signed_tx = account.sign_transaction(transaction_dict)
Sign ==
    /\ step = "sign"
    /\ IF transaction_dict.complete
       THEN /\ signed_tx' = [kind |-> "signed", nonce |-> transaction_dict.nonce, signer |-> account]
            /\ step' = "wipe"
            /\ UNCHANGED exc
       ELSE /\ exc' = "Transaction must include these fields"
            /\ step' = "except"
            /\ UNCHANGED signed_tx
    /\ UNCHANGED <<keyring, keystore_json, transaction_dict, password, keystore, account,
                   decrypted, wiped, result, printed, calls>>
    /\ UNCHANGED <<dvars, cvars, evars, svars>>

\* 5. MEMORY WIPE: del account; del password; del keystore; gc.collect()
MemoryWipe ==
    /\ step = "wipe"
    /\ account' = "unbound"
    /\ password' = "unbound"
    /\ keystore' = "unbound"
    /\ wiped' = TRUE
    /\ step' = "return"
    /\ UNCHANGED <<keyring, keystore_json, transaction_dict, signed_tx, exc,
                   decrypted, result, printed, calls>>
    /\ UNCHANGED <<dvars, cvars, evars, svars>>

\* return signed_tx
ReturnSigned ==
    /\ step = "return"
    /\ result' = [kind |-> "signed", tx |-> signed_tx]
    /\ step' = "returned"
    /\ UNCHANGED <<keyring, keystore_json, transaction_dict, password, keystore, account,
                   signed_tx, exc, decrypted, wiped, printed, calls>>
    /\ UNCHANGED <<dvars, cvars, evars, svars>>

\* except Exception as e: print(f"Signing failed: {e}"); return None.  The
\* locals are as the raising statement left them.
Except ==
    /\ step = "except"
    /\ printed' = "Signing failed: " \o exc
    /\ result' = None
    /\ step' = "returned"
    /\ UNCHANGED <<keyring, keystore_json, transaction_dict, password, keystore, account,
                   signed_tx, exc, decrypted, wiped, calls>>
    /\ UNCHANGED <<dvars, cvars, evars, svars>>

NextSigner ==
    \/ CallSign
    \/ GetPassword
    \/ CheckPassword
    \/ LoadKeystore
    \/ Decrypt
    \/ Sign
    \/ MemoryWipe
    \/ ReturnSigned
    \/ Except

SpecSigner == InitSigner /\ [][NextSigner]_vars

----------------------------------------------------------------------------
(* Properties of the dispatch table and of MAIN *)

TableBuilt == pc \notin {"mask", "build"}

Terminated == pc \in {"handler", "reverted"}

KnownSelectors == {SelectorOf(fn) : fn \in Range(funcs)}

\* The places of the table where selector s is bound: <<slot, 0>> for a
\* DIRECT binding, <<slot, j>> for the j-th pair of a CHAIN.
Places(s) ==
    {<<i, 0>> : i \in {i \in DOMAIN table : table[i].kind = "DIRECT" /\ table[i].sel = s}}
    \cup UNION {{<<i, j>> : j \in {j \in 1..Len(table[i].chain) : table[i].chain[j].sel = s}}
                : i \in {i \in DOMAIN table : table[i].kind = "CHAIN"}}

\* The handler the table binds at a place.
HandlerAt(pl) ==
    IF pl[2] = 0 THEN table[pl[1]].handler ELSE table[pl[1]].chain[pl[2]].handler

\* C1: every selector of the set is bound at exactly one place of the table,
\* in the slot selector & mask, to its own handler; and a call with that
\* selector ends in that handler.
C1_EverySelectorResolves ==
    TableBuilt =>
        /\ \A fn \in Range(funcs) :
              /\ Cardinality(Places(SelectorOf(fn))) = 1
              /\ \A pl \in Places(SelectorOf(fn)) :
                    /\ pl[1] = SlotIndex(SelectorOf(fn), width)
                    /\ HandlerAt(pl) = fn
        /\ (Terminated /\ sel \in KnownSelectors) =>
              /\ pc = "handler"
              /\ target.kind = "leaf"
              /\ target.handler \in Range(funcs)
              /\ SelectorOf(target.handler) = sel

\* C1 witness: with the article's mask (6 bits) cr4 and tf3 share slot 0x0a,
\* and a call of cr4 went through the collision handler to cr4's handler.
C1_Witness ==
    /\ pc = "handler"
    /\ width = 6
    /\ sel = SelectorOf("cr4")
    /\ target.handler = "cr4"
    /\ table[10].kind = "CHAIN"
    /\ Len(table[10].chain) = 2
    /\ table[10].chain[1].handler = "tf3"
    /\ table[10].chain[2].handler = "cr4"

\* C2: a call whose selector is not a selector of the set never reaches a
\* handler; when MAIN has finished it has reverted.
C2_UnknownSelectorReverts ==
    (TableBuilt /\ sel # <<>> /\ sel \notin KnownSelectors) =>
        /\ pc # "handler"
        /\ Terminated => pc = "reverted"

\* C2 witness: an unknown selector whose slot holds a single function with a
\* different full selector ended in revert.
C2_Witness ==
    /\ pc = "reverted"
    /\ sel \notin KnownSelectors
    /\ table[SlotIndex(sel, width)].kind = "DIRECT"
    /\ table[SlotIndex(sel, width)].sel # sel

\* C3 as stated: a call whose slot entry is DIRECT ends in that entry's
\* handler whatever the incoming selector is.
C3_DirectUnconditional ==
    (Terminated /\ table[SlotIndex(sel, width)].kind = "DIRECT") =>
        /\ pc = "handler"
        /\ target.handler = table[SlotIndex(sel, width)].handler

\* C3 amended: a call whose slot entry is DIRECT ends in that entry's handler
\* exactly when the incoming selector equals the bound one; otherwise it
\* reverts.
C3_DirectValidated ==
    (Terminated /\ table[SlotIndex(sel, width)].kind = "DIRECT") =>
        LET e == table[SlotIndex(sel, width)]
        IN  IF sel = e.sel
            THEN pc = "handler" /\ target.handler = e.handler
            ELSE pc = "reverted"

\* C3 witness: with the article's mask, slot 0x0a holds cr4 alone and a call
\* with another selector of the same low bits was turned away by cr4's leaf.
C3_Witness ==
    /\ pc = "reverted"
    /\ width = 6
    /\ table[10].kind = "DIRECT"
    /\ table[10].handler = "cr4"
    /\ sel = SelectorOf("sp1")

\* The selectors of the set that fall in slot i.
SelectorsAt(i) == {s \in KnownSelectors : SlotIndex(s, width) = i}

\* C12: a built table of width k has exactly 2^k entries, indexed
\* 0..2^k-1; the entry of slot i is EMPTY iff no selector of the set has
\* selector & mask = i, DIRECT iff exactly one has, CHAIN iff two or more
\* have; and every CHAIN lists exactly those selectors, each once, in
\* strictly ascending numeric order.
C12_TableShape ==
    TableBuilt =>
        /\ DOMAIN table = 0..(Pow2(width) - 1)
        /\ Cardinality(DOMAIN table) = Pow2(width)
        /\ \A i \in 0..(Pow2(width) - 1) :
              LET n == Cardinality(SelectorsAt(i))
                  e == table[i]
              IN  /\ e.kind \in {"EMPTY", "DIRECT", "CHAIN"}
                  /\ e.kind = "EMPTY" <=> n = 0
                  /\ e.kind = "DIRECT" <=> n = 1
                  /\ e.kind = "CHAIN" <=> n >= 2
                  /\ e.kind = "DIRECT" => e.sel \in SelectorsAt(i)
                  /\ e.kind = "CHAIN" =>
                        /\ Len(e.chain) = n
                        /\ {e.chain[j].sel : j \in 1..Len(e.chain)} = SelectorsAt(i)
                        /\ \A j \in 1..(Len(e.chain) - 1) :
                              SelLess(e.chain[j].sel, e.chain[j + 1].sel)

\* C12 witness: the article's table of 64 words, built from cr4, tf3 and cr1
\* listed in that order: slot 0x09 is cr1's own label, slot 0x0a the
\* collision handler testing tf3 before cr4, slot 0x0b is `error`.
C12_Witness ==
    /\ TableBuilt
    /\ width = 6
    /\ funcs = <<"cr4", "tf3", "cr1">>
    /\ Cardinality(DOMAIN table) = 64
    /\ table[9].kind = "DIRECT"
    /\ table[9].handler = "cr1"
    /\ table[10].kind = "CHAIN"
    /\ table[10].chain[1].sel = SelectorOf("tf3")
    /\ table[10].chain[2].sel = SelectorOf("cr4")
    /\ table[11].kind = "EMPTY"

\* A chain of three: with a mask of 2 bits cr4, sp1 and sp2 share slot 2.
ChainOfThreeReached ==
    /\ TableBuilt
    /\ width = 2
    /\ table[2].kind = "CHAIN"
    /\ Len(table[2].chain) = 3

----------------------------------------------------------------------------
(* Properties of the mask search *)

SearchRange == CeilLog2(Len(funcs)) .. cfg.maxWidth

Satisfying == {k \in SearchRange : MaxOccupancy(funcs, k) <= cfg.threshold}

ChainSlots == {i \in DOMAIN table : table[i].kind = "CHAIN"}

\* C4: when some width of the search range meets the threshold, no chain of
\* the built table is longer than the threshold.
C4_ChainsWithinThreshold ==
    (pc = "idle" /\ Satisfying # {}) =>
        \A i \in ChainSlots : Len(table[i].chain) <= cfg.threshold

\* C4 witness: the first candidate width had a slot of three, a later one met
\* the threshold of two, and the built table has a chain of exactly two.
C4_Witness ==
    /\ pc = "idle"
    /\ cfg.threshold = 2
    /\ Satisfying # {}
    /\ CeilLog2(Len(funcs)) \notin Satisfying
    /\ \E i \in ChainSlots : Len(table[i].chain) = 2

\* C5: the chosen width is the smallest of the range that meets the
\* threshold; when none does, it is the smallest among those with the least
\* maximum occupancy, the warning is raised and the table is still built.
C5_SmallestSatisfyingWidth ==
    (pc \in {"build", "idle"}) =>
        /\ width \in SearchRange
        /\ warning = (Satisfying = {})
        /\ Satisfying # {} => width = Min(Satisfying)
        /\ Satisfying = {} =>
              /\ \A k \in SearchRange : MaxOccupancy(funcs, width) <= MaxOccupancy(funcs, k)
              /\ \A k \in SearchRange : k < width =>
                    MaxOccupancy(funcs, k) > MaxOccupancy(funcs, width)
        /\ pc = "idle" => DOMAIN table = 0..(Pow2(width) - 1)

\* C5 witness: no width met the threshold, the best one found is not the first
\* candidate and is tied with a later one, and the table was built.
C5_Witness ==
    /\ pc = "idle"
    /\ warning
    /\ width > CeilLog2(Len(funcs))
    /\ \E k \in SearchRange : k > width /\ MaxOccupancy(funcs, k) = MaxOccupancy(funcs, width)

Orderings(s) == DistinctSeqs(Range(s), Len(s), Len(s))

\* C6: every ordering of the same functions gives the same mask width and the
\* same table, slot by slot and chain by chain.
C6_OrderIndependent ==
    pc = "idle" =>
        \A p \in Orderings(funcs) :
            /\ SelectMask(p, cfg).width = width
            /\ BuildTable(p, width) = table

\* C6 witness: a table with a chain, built from functions that were not
\* listed in ascending selector order.
C6_Witness ==
    /\ pc = "idle"
    /\ cfg.threshold >= 1
    /\ ChainSlots # {}
    /\ \E i, j \in 1..Len(funcs) :
          /\ i < j
          /\ SelLess(SelectorOf(funcs[j]), SelectorOf(funcs[i]))
          /\ SlotIndex(SelectorOf(funcs[i]), width) = SlotIndex(SelectorOf(funcs[j]), width)

----------------------------------------------------------------------------
(* Properties of canonicalization *)

RECURSIVE Balanced(_, _)
\* Every ")" closes an open "(" and none stays open.
Balanced(s, depth) ==
    IF s = <<>> THEN depth = 0
    ELSE IF Head(s) = "(" THEN Balanced(Tail(s), depth + 1)
    ELSE IF Head(s) = ")" THEN depth > 0 /\ Balanced(Tail(s), depth - 1)
    ELSE Balanced(Tail(s), depth)

Unbalanced(s) == ~Balanced(s, 0)

\* normalize_signature ran on the declaration.
Normalized == cpc = "done" /\ (cmode = "direct" \/ cname # "")

IsSignatureOf(name, out) ==
    /\ Len(out) >= 3
    /\ out[1] = name
    /\ out[2] = "("
    /\ out[Len(out)] = ")"

RECURSIVE ReadDecl(_, _, _, _, _)
\* Reads s as a parameter list, each parameter being `type [keyword] [name]`
\* and a type being a word or a parenthesised parameter list, and collects
\* the types with their commas and parentheses.  st is what may come next:
\* "T" a type, "A" what may follow a type, "K" what may follow a keyword,
\* "N" what may follow a name; sp says a space was just passed.
ReadDecl(s, st, depth, sp, out) ==
    IF s = <<>>
    THEN [ok |-> depth = 0 /\ (st \in {"A", "K", "N"} \/ (st = "T" /\ out = <<>>)),
          out |-> out]
    ELSE LET tok == Head(s)
             rest == Tail(s)
             bad == [ok |-> FALSE, out |-> out]
         IN  IF tok = " " THEN ReadDecl(rest, st, depth, TRUE, out)
             ELSE IF st = "T"
             THEN IF tok = "(" THEN ReadDecl(rest, "T", depth + 1, FALSE, Append(out, tok))
                  ELSE IF IsWord(tok) /\ tok \notin Keywords
                  THEN ReadDecl(rest, "A", depth, FALSE, Append(out, tok))
                  ELSE bad
             ELSE IF tok = "," THEN ReadDecl(rest, "T", depth, FALSE, Append(out, tok))
             ELSE IF tok = ")"
             THEN IF depth > 0 THEN ReadDecl(rest, "A", depth - 1, FALSE, Append(out, tok))
                  ELSE bad
             ELSE IF tok = "(" THEN bad
             ELSE IF ~sp THEN bad
             ELSE IF tok \in Keywords
             THEN IF st = "A" THEN ReadDecl(rest, "K", depth, FALSE, out) ELSE bad
             ELSE IF st \in {"A", "K"} THEN ReadDecl(rest, "N", depth, FALSE, out)
             ELSE bad

Declaration(s) == ReadDecl(s, "T", 0, FALSE, <<>>)

C10_TypesOnly ==
    (Normalized /\ Declaration(cinner).ok) =>
        cout = <<cname, "(">> \o Declaration(cinner).out \o <<")">>

\* The same for declarations without tuples; this much the code does.
FlatTypesOnly ==
    (Normalized /\ Declaration(cinner).ok /\ \A i \in 1..Len(cinner) : cinner[i] # "(") =>
        cout = <<cname, "(">> \o Declaration(cinner).out \o <<")">>

\* A parameter list in normalized form: types joined by commas, a type being
\* a word or a parenthesised list of types, with no name, keyword or space.
Canonical(s) == Declaration(s).ok /\ Declaration(s).out = s

\* C11: normalize_signature, given a name and a parameter list that is
\* already in normalized form, prints name(params) with the parameter list
\* unchanged, with python3 and with the fallback alike.
C11_Idempotent ==
    (Normalized /\ Canonical(cparams)) =>
        cout = <<cname, "(">> \o cparams \o <<")">>

\* C11 witness: a normalized list of a tuple type and a plain type went
\* through the python3 path and came out unchanged.
C11_Witness ==
    /\ cpc = "done"
    /\ cmode = "direct"
    /\ env.python3
    /\ cname = "foo"
    /\ cparams = <<"(", "uint256", ",", "address", ")", ",", "bool">>
    /\ Canonical(cparams)
    /\ cout = <<"foo", "(", "(", "uint256", ",", "address", ")", ",", "bool", ")">>

\* The same through the fallback, which splits at the nested comma as well.
FallbackIdempotentReached ==
    /\ cpc = "done"
    /\ ~env.python3
    /\ cparams = <<"(", "uint256", ",", "(", "address", ",", "bool", ")", ")">>
    /\ cout = <<cname, "(">> \o cparams \o <<")">>

\* From a file the declaration is cut at its first ")" before it is
\* normalized, so a normalized declaration with a tuple type is not printed
\* as it stands.
FileKeepsNormalized ==
    (Normalized /\ Canonical(cinner)) =>
        cout = <<cname, "(">> \o cinner \o <<")">>

----------------------------------------------------------------------------
(* Properties of get-selectors.sh *)

RECURSIVE EntryCount(_)
\* The number of entries of the input: declarations of files and literals.
EntryCount(as) ==
    IF as = <<>> THEN 0
    ELSE (IF Head(as).kind = "file" THEN Len(Head(as).lines) ELSE 1) + EntryCount(Tail(as))

HasDuplicates(sigs) == \E i, j \in 1..Len(sigs) : i # j /\ sigs[i] = sigs[j]

\* The script got as far as its collection loop and finished.
Ran == spc = "done" /\ env.cast /\ ~env.help

\* C7 as stated: two entries with the same canonical signature raise
\* DuplicateSignature and nothing is produced.
C7_DuplicateRejected ==
    (Ran /\ HasDuplicates(signatures)) =>
        /\ errMsg = "DuplicateSignature"
        /\ exitCode # 0
        /\ output = <<>>

\* C7 amended: no duplicate is detected: every entry of the input, repeated
\* or not, gets its own line, in input order, and the script exits 0.
C7_DuplicatesKept ==
    (Ran /\ EntryCount(args) > 0) =>
        /\ errMsg = ""
        /\ exitCode = 0
        /\ Len(signatures) = EntryCount(args)
        /\ Len(output) = EntryCount(args)
        /\ \A i \in 1..Len(output) :
              output[i] = [sig |-> signatures[i], selector |-> cast_sig(signatures[i])]

\* C7 witness: `name()` from a literal and `name( )` from a file gave the same
\* signature twice, and both lines were printed.
C7_Witness ==
    /\ Ran
    /\ exitCode = 0
    /\ Len(args) = 2
    /\ args[1].kind = "sig"
    /\ args[2].kind = "file"
    /\ Len(args[2].lines) = 1
    /\ args[2].lines[1].inner = <<" ">>
    /\ Len(output) = 2
    /\ output[1] = output[2]

\* C9 as stated: an input without any signature is valid and reports no error.
C9_EmptyInputValid ==
    (Ran /\ EntryCount(args) = 0) =>
        /\ errMsg = ""
        /\ exitCode = 0

\* C9 amended: an input without any signature is rejected: the script dies
\* (exit 1) with "no function signatures found", or with "no inputs provided
\* and default file not found" when there is no argument and no default file,
\* and prints no selector.
C9_EmptyInputDies ==
    (Ran /\ EntryCount(args) = 0) =>
        /\ exitCode = 1
        /\ output = <<>>
        /\ errMsg = IF args = <<>>
                    THEN "no inputs provided and default file not found"
                    ELSE "no function signatures found"

\* C9 witness: files were given, none declared a function, and the script
\* died after its collection loop.
C9_Witness ==
    /\ Ran
    /\ args # <<>>
    /\ EntryCount(args) = 0
    /\ argi > Len(args)
    /\ errMsg = "no function signatures found"

----------------------------------------------------------------------------
(* Properties of sign_securely *)

Returned == step = "returned"

\* C13: whenever a call in which the private key was decrypted has returned,
\* the memory wipe was executed in it, whether signing succeeded or signing
\* raised and None was returned.
C13_WipeBeforeReturn ==
    (Returned /\ decrypted) => wiped

\* The wipe is executed when signing succeeds, and then nothing of the
\* account, the password and the keystore stays bound.
WipeOnSuccess ==
    (Returned /\ result # None) =>
        /\ decrypted
        /\ wiped
        /\ account = "unbound"
        /\ password = "unbound"
        /\ keystore = "unbound"

\* The wipe is executed on no path through except.
NoWipeOnFailure ==
    (Returned /\ result = None) =>
        /\ ~wiped
        /\ printed # ""
        /\ decrypted => (account # "unbound" /\ password # "unbound" /\ keystore # "unbound")

\* Signing raised after the key was decrypted and None was returned.
SigningRaisedReached ==
    /\ Returned
    /\ decrypted
    /\ result = None
    /\ ~transaction_dict.complete

====
